---- MODULE Spec2Model ----
(***************************************************************************)
(* Sensor assignment and hybrid estimation of the schools air-quality      *)
(* application: the assign_sensors batch (Resolver), the two School        *)
(* implementations of get_current_reading (Estimator),                     *)
(* _calculate_adjustment_factor (Calculator) and get_threshold_status      *)
(* (Classifier).                                                           *)
(*                                                                         *)
(* Units.  Coordinates are integer grid steps of StepCm centimetres.       *)
(* Distances are integers in centimetres.  Concentrations are integers in  *)
(* hundredths of a microgram per cubic metre.  Adjustment factors are      *)
(* integers in thousandths.  Time is in seconds.  An optional number is a  *)
(* sequence of length at most one: None is <<>>, a present value x is      *)
(* <<x>>.                                                                  *)
(***************************************************************************)
EXTENDS Integers, Sequences, FiniteSets, TLC

(***************************************************************************)
(* Bounds of the model.                                                    *)
(***************************************************************************)
NSensors == 2
NSchools == 2

SensorIds == 1..NSensors
SchoolIds == 1..NSchools

(***************************************************************************)
(* Optional values and Python truthiness.                                  *)
(***************************************************************************)
None == <<>>
Some(x) == <<x>>
IsNone(v) == v = <<>>
Val(v) == v[1]
\* bool(v) of an optional number: None and 0 are both false
Truthy(v) == v /= <<>> /\ v[1] /= 0
\* a foreign key that is NULL
NoSensor == 0

Abs(x) == IF x < 0 THEN 0 - x ELSE x
Min(a, b) == IF a <= b THEN a ELSE b
Max(a, b) == IF a >= b THEN a ELSE b

\* round(n / d) to the nearest integer, ties to the even neighbour, d > 0
RoundDiv(n, d) ==
    LET a == Abs(n)
        q == a \div d
        r == a % d
        m == IF 2 * r < d THEN q
             ELSE IF 2 * r > d THEN q + 1
             ELSE IF q % 2 = 0 THEN q ELSE q + 1
    IN IF n < 0 THEN 0 - m ELSE m

(***************************************************************************)
(* Distance Engine: haversine_distance.                                    *)
(***************************************************************************)
\* length of one grid step of latitude or longitude, in centimetres (50 m)
StepCm == 5000

RECURSIVE ISqrtBetween(_, _, _)
ISqrtBetween(n, lo, hi) ==
    IF lo >= hi THEN lo
    ELSE LET mid == (lo + hi + 1) \div 2
         IN IF mid * mid <= n THEN ISqrtBetween(n, mid, hi)
            ELSE ISqrtBetween(n, lo, mid - 1)

ISqrt(n) == ISqrtBetween(n, 0, 46340)

\* great-circle distance in centimetres between two grid points; on the few
\* hundred metres the thresholds are about the sphere is flat, so the
\* distance is StepCm * sqrt(dlat^2 + dlon^2)
haversine_distance(lat1, lon1, lat2, lon2) ==
    LET dlat == lat2 - lat1
        dlon == lon2 - lon1
    IN ISqrt((dlat * dlat + dlon * dlon) * 1000000) * (StepCm \div 1000)

\* round(distance, 1): metres with one decimal, here centimetres rounded to
\* a multiple of ten
Round1(cm) == RoundDiv(cm, 10) * 10

(***************************************************************************)
(* Stored records.                                                         *)
(***************************************************************************)
VARIABLES
    sensors,        \* Sensor table: id -> row
    schools,        \* School table: id -> row
    readings,       \* Reading table: sensor id -> set of rows
    annual_stats,   \* SensorAnnualStats table: sensor id -> set of rows
    now,            \* timezone.now(), seconds
    run,            \* the assign_sensors command in progress
    peer,           \* another invocation of assign_sensors: the one that
                    \* ran before, or one running at the same time
    feed,           \* the item of a readings feed a fetch command is
                    \* handling, or has handled last
    estimate,       \* what the last get_current_reading call returned
    status,         \* what the last get_threshold_status call returned
    calculated      \* what the last _calculate_adjustment_factor call
                    \* returned

vars == <<sensors, schools, readings, annual_stats, now, run, peer, feed,
          estimate, status, calculated>>

Networks == {"LAQN", "BREATHE"}
SiteTypes == {"urban_background", "roadside"}

\* sensor positions of the model: 70.71 m and 150 m from a school at
\* <<1, 1>>, 158.11 m and 250 m from a school at <<1, -1>>
SensorPositions == {<<2, 2>>, <<1, 4>>}

ActiveSensorRows ==
    {[latitude |-> p[1], longitude |-> p[2], network |-> n,
      site_type |-> t, is_active |-> TRUE] :
        p \in SensorPositions, n \in Networks, t \in SiteTypes}

\* a closed site: the nearest position, reference grade, urban background
ClosedSensorRow ==
    [latitude |-> 2, longitude |-> 2, network |-> "LAQN",
     site_type |-> "urban_background", is_active |-> FALSE]

SensorRows == ActiveSensorRows \cup {ClosedSensorRow}

\* school coordinates of the model; a coordinate 0 is a real coordinate
\* (the equator, the Greenwich meridian)
SchoolCoordinates == {<<1, 1>>, <<1, -1>>, <<1, 0>>}

\* LAEI baselines of the model: laei_no2, laei_pm25, laei_pm10
Baselines ==
    {<<None, None, None>>,
     <<Some(5000), Some(1840), None>>,
     <<Some(0), None, None>>,
     <<Some(3000), Some(0), Some(1840)>>}

\* a School row as created by the import: coordinates, no baseline yet,
\* data_source at its default and no sensor assigned
NewSchool(c, b) ==
    [latitude |-> Some(c[1]), longitude |-> Some(c[2]),
     laei_no2 |-> b[1], laei_pm25 |-> b[2], laei_pm10 |-> b[3],
     data_source |-> "LAEI",
     direct_sensor |-> NoSensor, direct_sensor_distance |-> None,
     reference_sensor |-> NoSensor, reference_sensor_distance |-> None]

\* no fetch command has received anything
NoFeed == [pc |-> "none"]

\* no call of get_current_reading or get_threshold_status has returned
NoEstimate == [variant |-> "none", school |-> 0]
NoStatus == [variant |-> "none", school |-> 0]
NoAdjustment == [variant |-> "none", school |-> 0]

\* the five fields the Resolver computes
Assignment(sc) ==
    [data_source |-> sc.data_source,
     direct_sensor |-> sc.direct_sensor,
     direct_sensor_distance |-> sc.direct_sensor_distance,
     reference_sensor |-> sc.reference_sensor,
     reference_sensor_distance |-> sc.reference_sensor_distance]

(***************************************************************************)
(* Sensor Assignment Resolver: assign_sensors, Command.handle.             *)
(***************************************************************************)
DefaultDirectThreshold == 150
DefaultReferenceThreshold == 2000

\* values of --direct-threshold and --reference-threshold of the model
DirectThresholds == {DefaultDirectThreshold}
ReferenceThresholds == {DefaultReferenceThreshold, 150}

\* Sensor.Meta.ordering = ['network', 'name']; the names follow the ids
QsBefore(tbl, a, b) ==
    \/ (tbl[a].network = "BREATHE" /\ tbl[b].network = "LAQN")
    \/ (tbl[a].network = tbl[b].network /\ a < b)

RECURSIVE QsOrder(_, _)
QsOrder(tbl, ids) ==
    IF ids = {} THEN <<>>
    ELSE LET first == CHOOSE a \in ids :
                          \A b \in ids \ {a} : QsBefore(tbl, a, b)
         IN <<first>> \o QsOrder(tbl, ids \ {first})

\* Sensor.objects.filter(is_active=True), evaluated
ActiveSensors(tbl) ==
    QsOrder(tbl, {i \in SensorIds : tbl[i].is_active})

RemoveAt(seq, i) ==
    [j \in 1..(Len(seq) - 1) |-> IF j < i THEN seq[j] ELSE seq[j + 1]]

\* a sort that leaves the later of two equal distances in front
RECURSIVE SortByDistanceUnstable(_)
SortByDistanceUnstable(seq) ==
    IF seq = <<>> THEN <<>>
    ELSE LET i == CHOOSE k \in 1..Len(seq) :
                      /\ \A j \in 1..Len(seq) :
                             seq[k].distance <= seq[j].distance
                      /\ \A j \in (k + 1)..Len(seq) :
                             seq[j].distance > seq[k].distance
         IN <<seq[i]>> \o SortByDistanceUnstable(RemoveAt(seq, i))

\* list.sort(key=distance): stable, ascending
RECURSIVE SortByDistance(_)
SortByDistance(seq) ==
    IF seq = <<>> THEN <<>>
    ELSE LET i == CHOOSE k \in 1..Len(seq) :
                      /\ \A j \in 1..Len(seq) :
                             seq[k].distance <= seq[j].distance
                      /\ \A j \in 1..(k - 1) :
                             seq[j].distance > seq[k].distance
         IN <<seq[i]>> \o SortByDistance(RemoveAt(seq, i))

\* the list built once, for the first school of the batch, and used for
\* every school
SensorDistancesOfFirst(sc, tbl, order) ==
    SortByDistance(
        [k \in 1..Len(order) |->
            [sensor |-> order[k],
             distance |-> haversine_distance(
                              Val(run.loaded[1].latitude),
                              Val(run.loaded[1].longitude),
                              tbl[order[k]].latitude,
                              tbl[order[k]].longitude)]])

\* lines 98-111: the distance from the school to every loaded sensor
SensorDistances(sc, tbl, order) ==
    SortByDistance(
        [k \in 1..Len(order) |->
            [sensor |-> order[k],
             distance |-> haversine_distance(
                              Val(sc.latitude), Val(sc.longitude),
                              tbl[order[k]].latitude,
                              tbl[order[k]].longitude)]])

\* lines 113-133: scan of the sorted list for the direct sensor
RECURSIVE ScanDirect(_, _, _, _)
ScanDirect(sds, k, tbl, direct_threshold) ==
    IF k > Len(sds) THEN [sensor |-> NoSensor, distance |-> None]
    ELSE IF sds[k].distance > direct_threshold * 100
         THEN [sensor |-> NoSensor, distance |-> None]
    ELSE IF tbl[sds[k].sensor].site_type = "urban_background"
         THEN [sensor |-> sds[k].sensor,
               distance |-> Some(Round1(sds[k].distance))]
    ELSE ScanDirect(sds, k + 1, tbl, direct_threshold)

\* the nearest LAQN sensor, if strictly nearer than the threshold
PickReferenceStrict(sds, tbl, reference_threshold) ==
    LET laqn_distances ==
            SelectSeq(sds, LAMBDA sd : tbl[sd.sensor].network = "LAQN")
    IN IF laqn_distances /= <<>>
          /\ laqn_distances[1].distance < reference_threshold * 100
       THEN [sensor |-> laqn_distances[1].sensor,
             distance |-> Some(Round1(laqn_distances[1].distance))]
       ELSE [sensor |-> NoSensor, distance |-> None]

\* lines 135-143: the nearest LAQN sensor, if within the threshold
PickReference(sds, tbl, reference_threshold) ==
    LET laqn_distances ==
            SelectSeq(sds, LAMBDA sd : tbl[sd.sensor].network = "LAQN")
    IN IF laqn_distances /= <<>>
          /\ laqn_distances[1].distance <= reference_threshold * 100
       THEN [sensor |-> laqn_distances[1].sensor,
             distance |-> Some(Round1(laqn_distances[1].distance))]
       ELSE [sensor |-> NoSensor, distance |-> None]

\* the reference sensor taking priority over the direct one
DataSourceReferenceFirst(direct_sensor, reference_sensor) ==
    IF reference_sensor /= NoSensor THEN "ADJUSTED"
    ELSE IF direct_sensor /= NoSensor THEN "DIRECT"
    ELSE "LAEI"

\* lines 145-154
DataSource(direct_sensor, reference_sensor) ==
    IF direct_sensor /= NoSensor THEN "DIRECT"
    ELSE IF reference_sensor /= NoSensor THEN "ADJUSTED"
    ELSE "LAEI"

\* an incremental merge: a direct sensor the school already has is kept
ResolveKeeping(sc, tbl, order, direct_threshold, reference_threshold) ==
    CHOOSE a \in
        {[data_source |-> DataSource(d.sensor, r.sensor),
          direct_sensor |-> d.sensor,
          direct_sensor_distance |-> d.distance,
          reference_sensor |-> r.sensor,
          reference_sensor_distance |-> r.distance] :
             <<d, r>> \in
                 {<<IF sc.direct_sensor /= NoSensor
                    THEN [sensor |-> sc.direct_sensor,
                          distance |-> sc.direct_sensor_distance]
                    ELSE ScanDirect(sds, 1, tbl, direct_threshold),
                    PickReference(sds, tbl, reference_threshold)>> :
                      sds \in {SensorDistances(sc, tbl, order)}}} : TRUE

\* lines 98-154 for one school; the sorted list is computed once
Resolve(sc, tbl, order, direct_threshold, reference_threshold) ==
    CHOOSE a \in
        {[data_source |-> DataSource(d.sensor, r.sensor),
          direct_sensor |-> d.sensor,
          direct_sensor_distance |-> d.distance,
          reference_sensor |-> r.sensor,
          reference_sensor_distance |-> r.distance] :
             <<d, r>> \in
                 {<<ScanDirect(sds, 1, tbl, direct_threshold),
                    PickReference(sds, tbl, reference_threshold)>> :
                      sds \in {SensorDistances(sc, tbl, order)}}} : TRUE

\* line 94: "not school.latitude or not school.longitude"
HasNoCoordinates(sc) == ~Truthy(sc.latitude) \/ ~Truthy(sc.longitude)

\* the command line as typed: a threshold option is given or left out
Argv(dth, rth) == [direct_threshold |-> dth, reference_threshold |-> rth]

IdleRun ==
    [pc |-> "idle", argv |-> Argv(None, None), dry_run |-> FALSE,
     direct_threshold |-> DefaultDirectThreshold,
     reference_threshold |-> DefaultReferenceThreshold,
     loaded |-> <<>>, idx |-> 0, all_sensors |-> <<>>, order |-> <<>>,
     processed |-> {}, skipped |-> {},
     direct |-> 0, adjusted |-> 0, laei_only |-> 0,
     direct_laqn |-> 0, direct_breathe |-> 0]

\* lines 67-93: the options are read and the loop over the schools starts;
\* iterating School.objects.all() loads every school row
StartRun(dry, dth, rth) ==
    /\ run.pc \in {"idle", "done"}
    /\ run' = [IdleRun EXCEPT !.pc = "loop", !.dry_run = dry,
                              !.argv = Argv(Some(dth), Some(rth)),
                              !.direct_threshold = dth,
                              !.reference_threshold = rth,
                              !.loaded = schools, !.idx = 1]
    /\ UNCHANGED <<sensors, schools, readings, annual_stats, now, peer, feed,
                   estimate, status, calculated>>

\* the school passed over loses its assignment
SkipSchoolAndClear ==
    /\ run.pc = "loop"
    /\ run.idx <= Len(run.loaded)
    /\ HasNoCoordinates(run.loaded[run.idx])
    /\ run' = [run EXCEPT !.idx = @ + 1, !.skipped = @ \cup {run.idx}]
    /\ schools' = [schools EXCEPT
                      ![run.idx].data_source = "LAEI",
                      ![run.idx].direct_sensor = NoSensor,
                      ![run.idx].direct_sensor_distance = None,
                      ![run.idx].reference_sensor = NoSensor,
                      ![run.idx].reference_sensor_distance = None]
    /\ UNCHANGED <<sensors, readings, annual_stats, now, peer, feed,
                   estimate, status, calculated>>

\* lines 94-96: a school without coordinates is passed over
SkipSchool ==
    /\ run.pc = "loop"
    /\ run.idx <= Len(run.loaded)
    /\ HasNoCoordinates(run.loaded[run.idx])
    /\ run' = [run EXCEPT !.idx = @ + 1, !.skipped = @ \cup {run.idx}]
    /\ UNCHANGED <<sensors, schools, readings, annual_stats, now, peer, feed,
                   estimate, status, calculated>>

\* a sensor the school already has is not considered again
ProcessSchoolAvoidingPrevious ==
    /\ run.pc = "loop"
    /\ run.idx <= Len(run.loaded)
    /\ ~HasNoCoordinates(run.loaded[run.idx])
    /\ \E tbl \in {IF run.all_sensors = <<>> THEN sensors
                    ELSE run.all_sensors[1]} :
       \E order \in {IF run.all_sensors = <<>> THEN ActiveSensors(sensors)
                      ELSE run.order} :
       \E a \in {Resolve(run.loaded[run.idx], tbl,
                          SelectSeq(order,
                              LAMBDA i :
                                  i \notin
                                      {run.loaded[run.idx].direct_sensor,
                                       run.loaded[run.idx].reference_sensor}),
                          run.direct_threshold, run.reference_threshold)} :
       LET saved == [run.loaded[run.idx] EXCEPT
                        !.direct_sensor = a.direct_sensor,
                        !.direct_sensor_distance = a.direct_sensor_distance,
                        !.reference_sensor = a.reference_sensor,
                        !.reference_sensor_distance =
                            a.reference_sensor_distance,
                        !.data_source = a.data_source]
           isdirect == a.direct_sensor /= NoSensor
           laqn == isdirect /\ tbl[a.direct_sensor].network = "LAQN"
       IN /\ run' = [run EXCEPT
                        !.idx = @ + 1,
                        !.all_sensors = <<tbl>>,
                        !.order = order,
                        !.processed = @ \cup {run.idx},
                        !.direct = IF a.data_source = "DIRECT"
                                   THEN @ + 1 ELSE @,
                        !.adjusted = IF a.data_source = "ADJUSTED"
                                     THEN @ + 1 ELSE @,
                        !.laei_only = IF a.data_source = "LAEI"
                                      THEN @ + 1 ELSE @,
                        !.direct_laqn = IF laqn THEN @ + 1 ELSE @,
                        !.direct_breathe = IF isdirect /\ ~laqn
                                           THEN @ + 1 ELSE @]
          /\ schools' = IF run.dry_run THEN schools
                        ELSE [schools EXCEPT ![run.idx] = saved]
    /\ estimate' = NoEstimate
    /\ status' = NoStatus
    /\ calculated' = NoAdjustment
    /\ UNCHANGED <<sensors, readings, annual_stats, now, peer, feed>>

\* the school is saved whatever --dry-run says
ProcessSchoolSavingAlways ==
    /\ run.pc = "loop"
    /\ run.idx <= Len(run.loaded)
    /\ ~HasNoCoordinates(run.loaded[run.idx])
    /\ \E tbl \in {IF run.all_sensors = <<>> THEN sensors
                    ELSE run.all_sensors[1]} :
       \E order \in {IF run.all_sensors = <<>> THEN ActiveSensors(sensors)
                      ELSE run.order} :
       \E a \in {Resolve(run.loaded[run.idx], tbl, order,
                          run.direct_threshold, run.reference_threshold)} :
       LET saved == [run.loaded[run.idx] EXCEPT
                        !.direct_sensor = a.direct_sensor,
                        !.direct_sensor_distance = a.direct_sensor_distance,
                        !.reference_sensor = a.reference_sensor,
                        !.reference_sensor_distance =
                            a.reference_sensor_distance,
                        !.data_source = a.data_source]
           isdirect == a.direct_sensor /= NoSensor
           laqn == isdirect /\ tbl[a.direct_sensor].network = "LAQN"
       IN /\ run' = [run EXCEPT
                        !.idx = @ + 1,
                        !.all_sensors = <<tbl>>,
                        !.order = order,
                        !.processed = @ \cup {run.idx},
                        !.direct = IF a.data_source = "DIRECT"
                                   THEN @ + 1 ELSE @,
                        !.adjusted = IF a.data_source = "ADJUSTED"
                                     THEN @ + 1 ELSE @,
                        !.laei_only = IF a.data_source = "LAEI"
                                      THEN @ + 1 ELSE @,
                        !.direct_laqn = IF laqn THEN @ + 1 ELSE @,
                        !.direct_breathe = IF isdirect /\ ~laqn
                                           THEN @ + 1 ELSE @]
          /\ schools' = [schools EXCEPT ![run.idx] = saved]
    /\ estimate' = NoEstimate
    /\ status' = NoStatus
    /\ calculated' = NoAdjustment
    /\ UNCHANGED <<sensors, readings, annual_stats, now, peer, feed>>

\* lines 98-170: one iteration of the loop for a school with coordinates.
\* The first iteration that reaches line 100 evaluates all_sensors; the
\* later ones reuse the loaded rows.  school.save() writes every field of
\* the loaded row.
ProcessSchool ==
    /\ run.pc = "loop"
    /\ run.idx <= Len(run.loaded)
    /\ ~HasNoCoordinates(run.loaded[run.idx])
    /\ \E tbl \in {IF run.all_sensors = <<>> THEN sensors
                    ELSE run.all_sensors[1]} :
       \E order \in {IF run.all_sensors = <<>> THEN ActiveSensors(sensors)
                      ELSE run.order} :
       \E a \in {Resolve(run.loaded[run.idx], tbl, order,
                          run.direct_threshold, run.reference_threshold)} :
       LET saved == [run.loaded[run.idx] EXCEPT
                        !.direct_sensor = a.direct_sensor,
                        !.direct_sensor_distance = a.direct_sensor_distance,
                        !.reference_sensor = a.reference_sensor,
                        !.reference_sensor_distance =
                            a.reference_sensor_distance,
                        !.data_source = a.data_source]
           isdirect == a.direct_sensor /= NoSensor
           laqn == isdirect /\ tbl[a.direct_sensor].network = "LAQN"
       IN /\ run' = [run EXCEPT
                        !.idx = @ + 1,
                        !.all_sensors = <<tbl>>,
                        !.order = order,
                        !.processed = @ \cup {run.idx},
                        !.direct = IF a.data_source = "DIRECT"
                                   THEN @ + 1 ELSE @,
                        !.adjusted = IF a.data_source = "ADJUSTED"
                                     THEN @ + 1 ELSE @,
                        !.laei_only = IF a.data_source = "LAEI"
                                      THEN @ + 1 ELSE @,
                        !.direct_laqn = IF laqn THEN @ + 1 ELSE @,
                        !.direct_breathe = IF isdirect /\ ~laqn
                                           THEN @ + 1 ELSE @]
          /\ schools' = IF run.dry_run THEN schools
                        ELSE [schools EXCEPT ![run.idx] = saved]
    /\ estimate' = NoEstimate
    /\ status' = NoStatus
    /\ calculated' = NoAdjustment
    /\ UNCHANGED <<sensors, readings, annual_stats, now, peer, feed>>

\* lines 172-209: the summary after the loop; total = schools.count() is the
\* number of rows the loop iterated, and the percentages 100 * n / total
\* raise ZeroDivisionError when it is 0
FinishRun ==
    /\ run.pc = "loop"
    /\ run.idx > Len(run.loaded)
    /\ run' = [run EXCEPT !.pc = IF Len(run.loaded) = 0 THEN "error"
                                 ELSE "done"]
    /\ UNCHANGED <<sensors, schools, readings, annual_stats, now, peer, feed,
                   estimate, status, calculated>>

\* the tables the Resolver reads: any inventory of sensors, any schools
InitResolver ==
    /\ sensors \in [SensorIds -> SensorRows]
    /\ schools \in [SchoolIds ->
                       {NewSchool(c, <<None, None, None>>) :
                            c \in SchoolCoordinates}]
    /\ readings = [i \in SensorIds |-> {}]
    /\ annual_stats = [i \in SensorIds |-> {}]
    /\ now = 0
    /\ run = IdleRun
    /\ peer = IdleRun
    /\ feed = NoFeed
    /\ estimate = NoEstimate
    /\ status = NoStatus
    /\ calculated = NoAdjustment

NextResolver ==
    \/ \E dry \in BOOLEAN, dth \in DirectThresholds,
          rth \in ReferenceThresholds : StartRun(dry, dth, rth)
    \/ SkipSchool
    \/ ProcessSchool
    \/ FinishRun

SpecResolver == InitResolver /\ [][NextResolver]_vars

(***************************************************************************)
(* Readings and annual statistics.                                         *)
(***************************************************************************)
Pollutants == {"no2", "pm25", "pm10"}

\* the reading stored for the earliest hour: order_by('timestamp').first()
get_first_reading(i) ==
    IF readings[i] = {} THEN <<>>
    ELSE <<CHOOSE r \in readings[i] :
               \A q \in readings[i] : q.timestamp >= r.timestamp>>

\* Sensor.get_latest_reading: readings.order_by('-timestamp').first()
get_latest_reading(i) ==
    IF readings[i] = {} THEN <<>>
    ELSE <<CHOOSE r \in readings[i] :
               \A q \in readings[i] : q.timestamp <= r.timestamp>>

\* annual_stats.order_by('-year').first()
latest_annual_stats(i) ==
    IF annual_stats[i] = {} THEN <<>>
    ELSE <<CHOOSE r \in annual_stats[i] :
               \A q \in annual_stats[i] : q.year <= r.year>>

\* default max_age_seconds of _is_reading_fresh in air_quality.models
MaxAgeAirQuality == 7200
\* default max_age_seconds of _is_reading_fresh in schools.models
MaxAgeSchools == 86400

MaxAge(variant) ==
    IF variant = "air_quality" THEN MaxAgeAirQuality ELSE MaxAgeSchools

\* the age taken as timedelta.seconds, the seconds within the last day
is_reading_fresh_within_day(reading, max_age_seconds) ==
    IF reading = <<>> THEN FALSE
    ELSE (now - reading[1].timestamp) % 86400 <= max_age_seconds

\* _is_reading_fresh(reading): reading is <<>> or <<row>>
is_reading_fresh(reading, max_age_seconds) ==
    IF reading = <<>> THEN FALSE
    ELSE now - reading[1].timestamp <= max_age_seconds

\* reading.timestamp.hour of a timestamp stored in UTC
Hour(timestamp) == (timestamp \div 3600) % 24

\* _has_laei_data: any([no2, pm25, pm10])
has_laei_data(sc) ==
    Truthy(sc.laei_no2) \/ Truthy(sc.laei_pm25) \/ Truthy(sc.laei_pm10)

Baseline(sc, p) ==
    IF p = "no2" THEN sc.laei_no2
    ELSE IF p = "pm25" THEN sc.laei_pm25
    ELSE sc.laei_pm10

Mean(stats, p) ==
    IF p = "no2" THEN stats.no2_mean
    ELSE IF p = "pm25" THEN stats.pm25_mean
    ELSE stats.pm10_mean

(***************************************************************************)
(* Adjustment Factor Calculator: School._calculate_adjustment_factor.      *)
(***************************************************************************)
\* the empty dict
EmptyFactors == [p \in Pollutants |-> None]

\* round(reading / mean, 3), or no key
Factor(value, mean) ==
    IF Truthy(value) /\ Truthy(mean) /\ Val(mean) > 0
    THEN Some(RoundDiv(Val(value) * 1000, Val(mean)))
    ELSE None

\* lines 380-392 (air_quality), 220-231 (schools)
Factors(reading, stats) ==
    [p \in Pollutants |-> Factor(reading[p], Mean(stats, p))]

\* the factors taken from the latest reading however old it is
calculate_adjustment_factor_any_age(sc) ==
    IF sc.reference_sensor = NoSensor THEN EmptyFactors
    ELSE IF get_latest_reading(sc.reference_sensor) = <<>>
         THEN EmptyFactors
    ELSE IF latest_annual_stats(sc.reference_sensor) = <<>>
         THEN EmptyFactors
    ELSE Factors(get_latest_reading(sc.reference_sensor)[1],
                 latest_annual_stats(sc.reference_sensor)[1])

\* air_quality.models.School._calculate_adjustment_factor
calculate_adjustment_factor_air_quality(sc) ==
    IF sc.reference_sensor = NoSensor THEN EmptyFactors
    ELSE IF ~is_reading_fresh(get_latest_reading(sc.reference_sensor),
                              MaxAgeAirQuality)
         THEN EmptyFactors
    ELSE IF latest_annual_stats(sc.reference_sensor) = <<>>
         THEN EmptyFactors
    ELSE Factors(get_latest_reading(sc.reference_sensor)[1],
                 latest_annual_stats(sc.reference_sensor)[1])

\* schools.models.School._calculate_adjustment_factor: daytime readings only
calculate_adjustment_factor_schools(sc) ==
    IF sc.reference_sensor = NoSensor THEN EmptyFactors
    ELSE IF ~is_reading_fresh(get_latest_reading(sc.reference_sensor),
                              MaxAgeSchools)
         THEN EmptyFactors
    ELSE IF \/ Hour(get_latest_reading(sc.reference_sensor)[1].timestamp) < 7
            \/ Hour(get_latest_reading(sc.reference_sensor)[1].timestamp)
                   >= 19
         THEN EmptyFactors
    ELSE IF latest_annual_stats(sc.reference_sensor) = <<>>
         THEN EmptyFactors
    ELSE Factors(get_latest_reading(sc.reference_sensor)[1],
                 latest_annual_stats(sc.reference_sensor)[1])

(***************************************************************************)
(* Hybrid Estimator: School.get_current_reading.                           *)
(***************************************************************************)
\* max(0.2, min(factor, 5.0))
Clamp(factor) == Max(200, Min(factor, 5000))

\* air_quality.models.School._apply_adjustment
apply_adjustment_air_quality(baseline, factor) ==
    IF IsNone(baseline) \/ IsNone(factor) THEN baseline
    ELSE Some(RoundDiv(Val(baseline) * Clamp(Val(factor)), 10000) * 10)

\* "float(x) if x else None"
FloatOrNone(x) == IF Truthy(x) THEN x ELSE None

\* schools.models.School._apply_adjustment
apply_adjustment_schools(baseline, factor) ==
    IF IsNone(baseline) \/ IsNone(factor) THEN FloatOrNone(baseline)
    ELSE Some(RoundDiv(Val(baseline) * Clamp(Val(factor)), 10000) * 10)

\* lines 277-285: the result before any method applies
BlankResult(sc) ==
    [source |-> sc.data_source, method |-> "None", confidence |-> "low",
     no2 |-> None, pm25 |-> None, pm10 |-> None,
     adjustment_factors |-> EmptyFactors]

\* a sensor that is not reference grade rated like an adjusted estimate
ConfidenceMediumIfNotLAQN(sensor) ==
    IF sensors[sensor].network = "LAQN" THEN "high" ELSE "medium"

Confidence(sensor) ==
    IF sensors[sensor].network = "LAQN" THEN "high" ELSE "medium-high"

\* lines 291-299 of air_quality.models: the reading's values as they are
DirectResultAirQuality(sc) ==
    [BlankResult(sc) EXCEPT
        !.no2 = get_latest_reading(sc.direct_sensor)[1].no2,
        !.pm25 = get_latest_reading(sc.direct_sensor)[1].pm25,
        !.pm10 = get_latest_reading(sc.direct_sensor)[1].pm10,
        !.method = "direct",
        !.confidence = Confidence(sc.direct_sensor)]

\* lines 306-320 of air_quality.models
AdjustedResultAirQuality(sc, factors) ==
    [BlankResult(sc) EXCEPT
        !.no2 = apply_adjustment_air_quality(sc.laei_no2, factors["no2"]),
        !.pm25 = apply_adjustment_air_quality(sc.laei_pm25, factors["pm25"]),
        !.pm10 = apply_adjustment_air_quality(sc.laei_pm10, factors["pm10"]),
        !.method = "laei_adjusted",
        !.confidence = "medium",
        !.adjustment_factors = factors]

\* lines 325-332 of air_quality.models
BaselineResultAirQuality(sc) ==
    [BlankResult(sc) EXCEPT
        !.no2 = sc.laei_no2, !.pm25 = sc.laei_pm25, !.pm10 = sc.laei_pm10,
        !.method = "laei_only", !.confidence = "low"]

\* the adjusted method tried before the direct one
get_current_reading_adjusted_first(sc) ==
    IF /\ sc.reference_sensor /= NoSensor
       /\ has_laei_data(sc)
       /\ calculate_adjustment_factor_air_quality(sc) /= EmptyFactors
    THEN AdjustedResultAirQuality(
             sc, calculate_adjustment_factor_air_quality(sc))
    ELSE IF /\ sc.direct_sensor /= NoSensor
            /\ is_reading_fresh(get_latest_reading(sc.direct_sensor),
                                MaxAgeAirQuality)
    THEN DirectResultAirQuality(sc)
    ELSE IF has_laei_data(sc) THEN BaselineResultAirQuality(sc)
    ELSE BlankResult(sc)

\* air_quality.models.School.get_current_reading
get_current_reading_air_quality(sc) ==
    IF /\ sc.direct_sensor /= NoSensor
       /\ is_reading_fresh(get_latest_reading(sc.direct_sensor),
                           MaxAgeAirQuality)
    THEN DirectResultAirQuality(sc)
    ELSE IF /\ sc.reference_sensor /= NoSensor
            /\ has_laei_data(sc)
            /\ calculate_adjustment_factor_air_quality(sc) /= EmptyFactors
    THEN AdjustedResultAirQuality(
             sc, calculate_adjustment_factor_air_quality(sc))
    ELSE IF has_laei_data(sc) THEN BaselineResultAirQuality(sc)
    ELSE BlankResult(sc)

\* lines 133-141 of schools.models: "float(x) if x else None" per pollutant
DirectResultSchools(sc) ==
    [BlankResult(sc) EXCEPT
        !.no2 = FloatOrNone(get_latest_reading(sc.direct_sensor)[1].no2),
        !.pm25 = FloatOrNone(get_latest_reading(sc.direct_sensor)[1].pm25),
        !.pm10 = FloatOrNone(get_latest_reading(sc.direct_sensor)[1].pm10),
        !.method = "direct",
        !.confidence = Confidence(sc.direct_sensor)]

\* lines 148-162 of schools.models
AdjustedResultSchools(sc, factors) ==
    [BlankResult(sc) EXCEPT
        !.no2 = apply_adjustment_schools(sc.laei_no2, factors["no2"]),
        !.pm25 = apply_adjustment_schools(sc.laei_pm25, factors["pm25"]),
        !.pm10 = apply_adjustment_schools(sc.laei_pm10, factors["pm10"]),
        !.method = "laei_adjusted",
        !.confidence = "medium",
        !.adjustment_factors = factors]

\* lines 167-174 of schools.models
BaselineResultSchools(sc) ==
    [BlankResult(sc) EXCEPT
        !.no2 = FloatOrNone(sc.laei_no2),
        !.pm25 = FloatOrNone(sc.laei_pm25),
        !.pm10 = FloatOrNone(sc.laei_pm10),
        !.method = "laei_only", !.confidence = "low"]

\* schools.models.School.get_current_reading; no2_2022, pm25_2022 and
\* pm10_mean_2022 are the stored baselines laei_no2, laei_pm25, laei_pm10
get_current_reading_schools(sc) ==
    IF /\ sc.direct_sensor /= NoSensor
       /\ is_reading_fresh(get_latest_reading(sc.direct_sensor),
                           MaxAgeSchools)
    THEN DirectResultSchools(sc)
    ELSE IF /\ sc.reference_sensor /= NoSensor
            /\ has_laei_data(sc)
            /\ calculate_adjustment_factor_schools(sc) /= EmptyFactors
    THEN AdjustedResultSchools(sc, calculate_adjustment_factor_schools(sc))
    ELSE IF has_laei_data(sc) THEN BaselineResultSchools(sc)
    ELSE BlankResult(sc)

Variants == {"air_quality", "schools"}

get_current_reading(variant, sc) ==
    IF variant = "air_quality" THEN get_current_reading_air_quality(sc)
    ELSE get_current_reading_schools(sc)

calculate_adjustment_factor(variant, sc) ==
    IF variant = "air_quality"
    THEN calculate_adjustment_factor_air_quality(sc)
    ELSE calculate_adjustment_factor_schools(sc)

(***************************************************************************)
(* Threshold Classifier: School.get_threshold_status.                      *)
(***************************************************************************)
\* air_quality.models: UK limit, EU 2030 limit, WHO guideline
ThresholdsAirQuality ==
    [no2 |-> [uk |-> 4000, eu |-> 2000, who |-> 1000],
     pm25 |-> [uk |-> 2000, eu |-> 1000, who |-> 500],
     pm10 |-> [uk |-> 4000, eu |-> 2000, who |-> 1500]]

\* schools.models: UK limit, EU 2024 limit, WHO guideline
ThresholdsSchools ==
    [no2 |-> [uk |-> 4000, eu |-> 2000, who |-> 1000],
     pm25 |-> [uk |-> 2500, eu |-> 1000, who |-> 500],
     pm10 |-> [uk |-> 4000, eu |-> 2000, who |-> 1500]]

\* a value equal to a limit counted as exceeding it
get_category_strict(value, thresholds) ==
    IF value < thresholds.who THEN "meets_who"
    ELSE IF value < thresholds.eu THEN "meets_eu_2030"
    ELSE IF value < thresholds.uk THEN "meets_uk_only"
    ELSE "exceeds_uk"

\* air_quality.models.School._get_category
get_category(value, thresholds) ==
    IF value <= thresholds.who THEN "meets_who"
    ELSE IF value <= thresholds.eu THEN "meets_eu_2030"
    ELSE IF value <= thresholds.uk THEN "meets_uk_only"
    ELSE "exceeds_uk"

\* air_quality.models.School.get_threshold_status on the estimate `reading`
get_threshold_status_air_quality(reading) ==
    [p \in Pollutants |->
        IF IsNone(reading[p]) THEN <<>>
        ELSE <<[value |-> Round1(Val(reading[p])),
                meets_uk |-> Val(reading[p]) <= ThresholdsAirQuality[p].uk,
                meets_eu_2030 |->
                    Val(reading[p]) <= ThresholdsAirQuality[p].eu,
                meets_who |-> Val(reading[p]) <= ThresholdsAirQuality[p].who,
                category |->
                    get_category(Val(reading[p]), ThresholdsAirQuality[p])]>>]

\* schools.models.School.get_threshold_status: the three flags, no category
get_threshold_status_schools(reading) ==
    [p \in Pollutants |->
        IF IsNone(reading[p]) THEN <<>>
        ELSE <<[value |-> Round1(Val(reading[p])),
                meets_uk |-> Val(reading[p]) <= ThresholdsSchools[p].uk,
                meets_eu_2024 |-> Val(reading[p]) <= ThresholdsSchools[p].eu,
                meets_who |-> Val(reading[p]) <= ThresholdsSchools[p].who]>>]

get_threshold_status(variant, reading) ==
    IF variant = "air_quality" THEN get_threshold_status_air_quality(reading)
    ELSE get_threshold_status_schools(reading)

(***************************************************************************)
(* Calls of the Estimator, the Calculator and the Classifier, and time.    *)
(***************************************************************************)
\* a call is made once what the previous call returned has been consumed
NoCallOutstanding ==
    estimate = NoEstimate /\ status = NoStatus /\ calculated = NoAdjustment

\* the estimate written back to the school as its data source
GetCurrentReadingAndStore(variant, s) ==
    /\ NoCallOutstanding
    /\ estimate' = [variant |-> variant, school |-> s,
                    result |-> get_current_reading(variant, schools[s])]
    /\ schools' = [schools EXCEPT ![s].data_source =
                      IF get_current_reading(variant, schools[s]).method
                             = "direct"
                      THEN "DIRECT" ELSE "LAEI"]
    /\ status' = NoStatus
    /\ calculated' = NoAdjustment
    /\ UNCHANGED <<sensors, readings, annual_stats, now, run, peer, feed>>

GetCurrentReading(variant, s) ==
    /\ NoCallOutstanding
    /\ estimate' = [variant |-> variant, school |-> s,
                    result |-> get_current_reading(variant, schools[s])]
    /\ status' = NoStatus
    /\ calculated' = NoAdjustment
    /\ UNCHANGED <<sensors, schools, readings, annual_stats, now, run,
                   peer, feed>>

\* line 400 (air_quality), 235 (schools): the status is computed from a
\* fresh get_current_reading
GetThresholdStatus(variant, s) ==
    /\ NoCallOutstanding
    /\ \E reading \in {get_current_reading(variant, schools[s])} :
          /\ estimate' = [variant |-> variant, school |-> s,
                          result |-> reading]
          /\ status' = [variant |-> variant, school |-> s,
                        entries |-> get_threshold_status(variant, reading)]
    /\ calculated' = NoAdjustment
    /\ UNCHANGED <<sensors, schools, readings, annual_stats, now, run,
                   peer, feed>>

CalculateAdjustmentFactor(variant, s) ==
    /\ NoCallOutstanding
    /\ calculated' = [variant |-> variant, school |-> s,
                      factors |->
                          calculate_adjustment_factor(variant, schools[s])]
    /\ estimate' = NoEstimate
    /\ status' = NoStatus
    /\ UNCHANGED <<sensors, schools, readings, annual_stats, now, run,
                   peer, feed>>

\* timestamps of the stored readings of the model: 10:00 and 05:00 UTC
TDay == 36000
TNight == 18000

\* instants of the model: the 10:00 reading is exactly 7200 s old, one
\* second older, exactly 86400 s old, one second older
NowValues ==
    {TDay + MaxAgeAirQuality, TDay + MaxAgeAirQuality + 1,
     TDay + MaxAgeSchools, TDay + MaxAgeSchools + 1}

\* time passes; what a call returned earlier is not kept
Tick ==
    /\ \E t \in NowValues : t > now /\ now' = t
    /\ estimate' = NoEstimate
    /\ status' = NoStatus
    /\ calculated' = NoAdjustment
    /\ UNCHANGED <<sensors, schools, readings, annual_stats, run, peer, feed>>

\* pollutant values of the stored readings of the model
ReadingValues ==
    {[no2 |-> Some(4000), pm25 |-> None, pm10 |-> Some(0)],
     [no2 |-> Some(32000), pm25 |-> Some(1000), pm10 |-> Some(1234)],
     [no2 |-> Some(320), pm25 |-> Some(0), pm10 |-> None]}

ReadingRow(t, v) ==
    [timestamp |-> t, no2 |-> v.no2, pm25 |-> v.pm25, pm10 |-> v.pm10]

\* what a sensor has stored: nothing, one daytime reading, or the night
\* reading
ReadingSets ==
    {{}} \cup {{ReadingRow(TDay, v)} : v \in ReadingValues}
         \cup {{ReadingRow(TNight,
                           [no2 |-> Some(32000), pm25 |-> Some(1000),
                            pm10 |-> Some(1234)])}}

\* annual statistics of the model: none, or one year
StatsSets ==
    {{},
     {[year |-> 2024, no2_mean |-> Some(3200), pm25_mean |-> None,
       pm10_mean |-> Some(0 - 100)]},
     {[year |-> 2024, no2_mean |-> Some(0), pm25_mean |-> Some(3000),
       pm10_mean |-> Some(2000)]}}

\* the inventory the estimates are made over: urban background sites 70.7 m
\* from the school, Breathe London and LAQN in turn
EstimatorSensors ==
    [i \in SensorIds |->
        [latitude |-> 2, longitude |-> 2,
         network |-> IF i % 2 = 1 THEN "BREATHE" ELSE "LAQN",
         site_type |-> "urban_background", is_active |-> TRUE]]

\* a school row as a Resolver run stores it with direct sensor d and
\* reference sensor r
AssignedSchool(b, d, r) ==
    [NewSchool(<<1, 1>>, b) EXCEPT
        !.data_source = DataSource(d, r),
        !.direct_sensor = d,
        !.direct_sensor_distance =
            IF d = NoSensor THEN None
            ELSE Some(Round1(haversine_distance(1, 1, 2, 2))),
        !.reference_sensor = r,
        !.reference_sensor_distance =
            IF r = NoSensor THEN None
            ELSE Some(Round1(haversine_distance(1, 1, 2, 2)))]

\* the tables the Estimator reads: the first school with any baseline and
\* any assignment the Resolver can store, any stored reading per sensor,
\* annual statistics for LAQN sensors only (fetch_annual_stats)
InitEstimator ==
    /\ sensors = EstimatorSensors
    /\ \E b \in Baselines, d \in {NoSensor} \cup SensorIds,
          r \in {NoSensor} \cup {i \in SensorIds : i % 2 = 0} :
          schools = [s \in SchoolIds |->
                        IF s = 1 THEN AssignedSchool(b, d, r)
                        ELSE NewSchool(<<1, 1>>, <<None, None, None>>)]
    /\ readings \in [SensorIds -> ReadingSets]
    /\ annual_stats \in
           {f \in [SensorIds -> StatsSets] :
                \A i \in SensorIds : i % 2 = 1 => f[i] = {}}
    /\ now \in NowValues
    /\ run = IdleRun
    /\ peer = IdleRun
    /\ feed = NoFeed
    /\ estimate = NoEstimate
    /\ status = NoStatus
    /\ calculated = NoAdjustment

NextEstimator ==
    \/ \E v \in Variants, s \in SchoolIds : GetCurrentReading(v, s)
    \/ \E v \in Variants, s \in SchoolIds : GetThresholdStatus(v, s)
    \/ \E v \in Variants, s \in SchoolIds : CalculateAdjustmentFactor(v, s)
    \/ Tick

SpecEstimator == InitEstimator /\ [][NextEstimator]_vars

(***************************************************************************)
(* Maintenance between Resolver runs: the sensor sync and the admin edit   *)
(* of a school's coordinates.                                              *)
(***************************************************************************)
\* where a synced site lies after it has been moved: 200 m from a school at
\* <<1, 1>>
MovedPosition == <<1, 5>>

\* the sites whose feed entry changes and the schools whose coordinates are
\* edited
SyncedSensors == {2}
EditedSchools == {1}

\* sync_laqn_sensors lines 85-102, sync_breathe_sensors lines 80-100:
\* update_or_create(site_code, defaults) overwrites the position, the site
\* type and is_active of the stored sensor; the network stays
SyncSensor(i, p, t, a) ==
    /\ run.pc \in {"idle", "done"}
    /\ peer.pc \in {"idle", "done"}
    /\ sensors' = [sensors EXCEPT ![i] =
                      [latitude |-> p[1], longitude |-> p[2],
                       network |-> sensors[i].network,
                       site_type |-> t, is_active |-> a]]
    /\ sensors' /= sensors
    /\ estimate' = NoEstimate
    /\ status' = NoStatus
    /\ calculated' = NoAdjustment
    /\ UNCHANGED <<schools, readings, annual_stats, now, run, peer, feed>>

\* schools.admin.SchoolAdmin, fieldset 'Location': both fields are required
\* by the form, so a coordinate is replaced by a number, 0 included
EditCoordinates(s, c) ==
    /\ run.pc \in {"idle", "done"}
    /\ peer.pc \in {"idle", "done"}
    /\ schools' = [schools EXCEPT ![s].latitude = Some(c[1]),
                                  ![s].longitude = Some(c[2])]
    /\ schools' /= schools
    /\ estimate' = NoEstimate
    /\ status' = NoStatus
    /\ calculated' = NoAdjustment
    /\ UNCHANGED <<sensors, readings, annual_stats, now, run, peer, feed>>

\* every site open and 70.7 m from the first school, the Breathe London
\* ones roadside, the LAQN ones urban background; no school assigned yet
InitRerun ==
    /\ sensors = [i \in SensorIds |->
                     [EstimatorSensors[i] EXCEPT
                         !.site_type = IF i % 2 = 1 THEN "roadside"
                                       ELSE "urban_background"]]
    /\ schools = [s \in SchoolIds |->
                     NewSchool(IF s = 1 THEN <<1, 1>> ELSE <<1, -1>>,
                               <<None, None, None>>)]
    /\ readings = [i \in SensorIds |-> {}]
    /\ annual_stats = [i \in SensorIds |-> {}]
    /\ now = 0
    /\ run = IdleRun
    /\ peer = IdleRun
    /\ feed = NoFeed
    /\ estimate = NoEstimate
    /\ status = NoStatus
    /\ calculated = NoAdjustment

NextRerun ==
    \/ \E rth \in ReferenceThresholds :
          StartRun(FALSE, DefaultDirectThreshold, rth)
    \/ SkipSchool
    \/ ProcessSchool
    \/ FinishRun
    \/ \E i \in SyncedSensors, p \in {<<2, 2>>, MovedPosition},
          t \in SiteTypes, a \in BOOLEAN : SyncSensor(i, p, t, a)
    \/ \E s \in EditedSchools, c \in {<<1, 1>>, <<1, 0>>} :
          EditCoordinates(s, c)

SpecRerun == InitRerun /\ [][NextRerun]_vars

(***************************************************************************)
(* The command line of assign_sensors, run again and again.                *)
(***************************************************************************)
\* lines 48-93: argparse fills an option that was left out with its default,
\* then handle starts the loop; the invocation that ran before is kept as
\* peer
RunCommand(dry, dth, rth) ==
    /\ run.pc \in {"idle", "done"}
    /\ peer' = run
    /\ run' = [IdleRun EXCEPT
                  !.pc = "loop", !.dry_run = dry,
                  !.argv = Argv(dth, rth),
                  !.direct_threshold =
                      IF IsNone(dth) THEN DefaultDirectThreshold
                      ELSE Val(dth),
                  !.reference_threshold =
                      IF IsNone(rth) THEN DefaultReferenceThreshold
                      ELSE Val(rth),
                  !.loaded = schools, !.idx = 1]
    /\ UNCHANGED <<sensors, schools, readings, annual_stats, now, feed,
                   estimate, status, calculated>>

\* sites of the inventory the command is repeated over
RepeatSensorRows ==
    {[latitude |-> 2, longitude |-> 2, network |-> "LAQN",
      site_type |-> "urban_background", is_active |-> TRUE],
     [latitude |-> 1, longitude |-> 4, network |-> "LAQN",
      site_type |-> "roadside", is_active |-> TRUE],
     [latitude |-> 2, longitude |-> 2, network |-> "BREATHE",
      site_type |-> "urban_background", is_active |-> TRUE]}

InitRepeat ==
    /\ sensors \in [SensorIds -> RepeatSensorRows]
    /\ \E c \in {<<1, -1>>, <<1, 0>>} :
          schools = [s \in SchoolIds |->
                        NewSchool(IF s % 2 = 1 THEN <<1, 1>> ELSE c,
                                  <<None, None, None>>)]
    /\ readings = [i \in SensorIds |-> {}]
    /\ annual_stats = [i \in SensorIds |-> {}]
    /\ now = 0
    /\ run = IdleRun
    /\ peer = IdleRun
    /\ feed = NoFeed
    /\ estimate = NoEstimate
    /\ status = NoStatus
    /\ calculated = NoAdjustment

NextRepeat ==
    \/ \E dry \in BOOLEAN, dth \in {None, Some(DefaultDirectThreshold)},
          rth \in {None, Some(150)} : RunCommand(dry, dth, rth)
    \/ SkipSchool
    \/ ProcessSchool
    \/ FinishRun

SpecRepeat == InitRepeat /\ [][NextRepeat]_vars

(***************************************************************************)
(* Two invocations of assign_sensors at the same time.                     *)
(***************************************************************************)
\* the operating system suspends the invocation that was running and
\* resumes the other one; each keeps its own options, loaded schools,
\* loaded sensors and position in the loop
Switch ==
    /\ run /= peer
    /\ run' = peer
    /\ peer' = run
    /\ UNCHANGED <<sensors, schools, readings, annual_stats, now, feed,
                   estimate, status, calculated>>

NextParallel ==
    \/ \E rth \in ReferenceThresholds :
          StartRun(FALSE, DefaultDirectThreshold, rth)
    \/ SkipSchool
    \/ ProcessSchool
    \/ FinishRun
    \/ Switch

SpecParallel == InitRepeat /\ [][NextParallel]_vars

(***************************************************************************)
(* A site is closed after the Resolver has assigned it: assign_sensors,    *)
(* the sensor sync and the estimates of the schools together.              *)
(***************************************************************************)
\* the sites whose @IsClosed (LAQN) or EndDate (Breathe London) changes
ClosedSensors == {1, 2}

\* the reading every site may have stored: 10:00, every pollutant present
StoredReading ==
    ReadingRow(TDay, [no2 |-> Some(32000), pm25 |-> Some(1000),
                      pm10 |-> Some(1234)])

\* the annual statistics of every LAQN site
StoredStats ==
    [year |-> 2024, no2_mean |-> Some(3200), pm25_mean |-> None,
     pm10_mean |-> Some(0 - 100)]

\* every site open, urban background, 70.7 m from every school; the first
\* school has baselines; no school assigned yet; it is 12:00
InitClosure ==
    /\ sensors = EstimatorSensors
    /\ schools = [s \in SchoolIds |->
                     NewSchool(<<1, 1>>,
                               IF s = 1
                               THEN <<Some(5000), Some(1840), None>>
                               ELSE <<None, None, None>>)]
    /\ readings \in [SensorIds -> {{}, {StoredReading}}]
    /\ annual_stats = [i \in SensorIds |->
                          IF i % 2 = 0 THEN {StoredStats} ELSE {}]
    /\ now = TDay + MaxAgeAirQuality
    /\ run = IdleRun
    /\ peer = IdleRun
    /\ feed = NoFeed
    /\ estimate = NoEstimate
    /\ status = NoStatus
    /\ calculated = NoAdjustment

NextClosure ==
    \/ StartRun(FALSE, DefaultDirectThreshold, DefaultReferenceThreshold)
    \/ ProcessSchool
    \/ FinishRun
    \/ \E i \in ClosedSensors, a \in BOOLEAN :
          SyncSensor(i, <<2, 2>>, "urban_background", a)
    \/ \E v \in Variants, s \in SchoolIds : GetCurrentReading(v, s)
    \/ \E v \in Variants, s \in SchoolIds : GetThresholdStatus(v, s)
    \/ \E v \in Variants, s \in SchoolIds : CalculateAdjustmentFactor(v, s)

SpecClosure == InitClosure /\ [][NextClosure]_vars

(***************************************************************************)
(* The feeds: fetch_laqn_readings, fetch_breathe_readings and              *)
(* fetch_annual_stats store what the networks deliver, in any order, while *)
(* the estimates of the schools are read.                                  *)
(***************************************************************************)
\* the sites the feeds deliver for: one Breathe London, one LAQN
FedSensors == {1, 2}

\* the hours the feeds deliver for: 05:00 and 10:00 UTC
FeedTimestamps == {TNight, TDay}

\* what a feed delivers for one site and hour, per pollutant: None where the
\* species is missing or its value is empty, float(value) otherwise
FeedValues ==
    {[no2 |-> Some(32000), pm25 |-> None, pm10 |-> Some(1234)],
     [no2 |-> Some(0 - 500), pm25 |-> Some(1000), pm10 |-> None],
     [no2 |-> None, pm25 |-> None, pm10 |-> None]}

\* "if not values": no species of the hour had a value
NoValues(v) == \A p \in Pollutants : IsNone(v[p])

\* the lookup of update_or_create: the rows stored for a sensor and an hour
StoredAt(i, t) == {r \in readings[i] : r.timestamp = t}

\* the legacy _save_readings: a (sensor, timestamp) already stored is passed
\* over and keeps its values
FetchReadingsIfNew(i, t, v) ==
    /\ sensors[i].is_active
    /\ feed' = IF NoValues(v)
               THEN [pc |-> "skipped", sensor |-> i, timestamp |-> t]
               ELSE [pc |-> "saved", sensor |-> i, timestamp |-> t,
                     values |-> v, found |-> StoredAt(i, t)]
    /\ readings' =
           IF NoValues(v) \/ StoredAt(i, t) /= {} THEN readings
           ELSE [readings EXCEPT ![i] = @ \cup {ReadingRow(t, v)}]
    /\ estimate' = NoEstimate
    /\ status' = NoStatus
    /\ calculated' = NoAdjustment
    /\ UNCHANGED <<sensors, schools, annual_stats, now, run, peer>>

\* fetch_laqn_readings and fetch_breathe_readings, one hour of one active
\* site: an hour without values is passed over, any other is stored with
\* Reading.objects.update_or_create(sensor, timestamp, defaults = values)
FetchReadings(i, t, v) ==
    /\ sensors[i].is_active
    /\ feed' = IF NoValues(v)
               THEN [pc |-> "skipped", sensor |-> i, timestamp |-> t]
               ELSE [pc |-> "saved", sensor |-> i, timestamp |-> t,
                     values |-> v, found |-> StoredAt(i, t)]
    /\ readings' =
           IF NoValues(v) THEN readings
           ELSE [readings EXCEPT ![i] =
                    (@ \ StoredAt(i, t)) \cup {ReadingRow(t, v)}]
    /\ estimate' = NoEstimate
    /\ status' = NoStatus
    /\ calculated' = NoAdjustment
    /\ UNCHANGED <<sensors, schools, annual_stats, now, run, peer>>

\* the years fetch_annual_stats is asked for
StatsYears == {2023, 2024}

\* the annual means the LAQN API gives for a year: 2023 has every mean, 2024
\* has no PM2.5 mean, a revised 2024 has a lower NO2 mean, a year without
\* data has none
StatsMeans(year) ==
    IF year = 2023
    THEN {[no2_mean |-> Some(1600), pm25_mean |-> Some(500),
           pm10_mean |-> Some(2000)],
          [no2_mean |-> None, pm25_mean |-> None, pm10_mean |-> None]}
    ELSE {[no2_mean |-> Some(3200), pm25_mean |-> None,
           pm10_mean |-> Some(617)],
          [no2_mean |-> Some(2000), pm25_mean |-> None,
           pm10_mean |-> Some(617)]}

\* fetch_annual_stats, one year of one active LAQN site: a year already
\* stored is kept unless --overwrite, a year without any mean is passed
\* over, any other is stored with update_or_create(sensor, year, defaults)
FetchAnnualStats(i, year, means, overwrite) ==
    /\ sensors[i].network = "LAQN" /\ sensors[i].is_active
    /\ (\E r \in annual_stats[i] : r.year = year) => overwrite
    /\ Truthy(means.no2_mean) \/ Truthy(means.pm25_mean)
           \/ Truthy(means.pm10_mean)
    /\ annual_stats' =
           [annual_stats EXCEPT ![i] =
               {r \in @ : r.year /= year}
                   \cup {[year |-> year, no2_mean |-> means.no2_mean,
                          pm25_mean |-> means.pm25_mean,
                          pm10_mean |-> means.pm10_mean]}]
    /\ annual_stats' /= annual_stats
    /\ estimate' = NoEstimate
    /\ status' = NoStatus
    /\ calculated' = NoAdjustment
    /\ UNCHANGED <<sensors, schools, readings, now, run, peer, feed>>

\* nothing fetched yet; every site open; the first school has baselines and
\* is assigned the Breathe London site as its direct sensor and the LAQN
\* site as its reference sensor; it is 12:00
InitFeed ==
    /\ sensors = EstimatorSensors
    /\ schools = [s \in SchoolIds |->
                     IF s = 1
                     THEN AssignedSchool(<<Some(5000), Some(1840), None>>,
                                         1, 2)
                     ELSE NewSchool(<<1, 1>>, <<None, None, None>>)]
    /\ readings = [i \in SensorIds |-> {}]
    /\ annual_stats = [i \in SensorIds |-> {}]
    /\ now = TDay + MaxAgeAirQuality
    /\ run = IdleRun
    /\ peer = IdleRun
    /\ feed = NoFeed
    /\ estimate = NoEstimate
    /\ status = NoStatus
    /\ calculated = NoAdjustment

NextFeed ==
    \/ \E i \in FedSensors, t \in FeedTimestamps, v \in FeedValues :
          FetchReadings(i, t, v)
    \/ \E i \in FedSensors, year \in StatsYears, overwrite \in BOOLEAN :
          \E means \in StatsMeans(year) :
             FetchAnnualStats(i, year, means, overwrite)
    \/ \E v \in Variants, s \in SchoolIds : GetCurrentReading(v, s)
    \/ \E v \in Variants, s \in SchoolIds : GetThresholdStatus(v, s)
    \/ \E v \in Variants, s \in SchoolIds : CalculateAdjustmentFactor(v, s)

SpecFeed == InitFeed /\ [][NextFeed]_vars

(***************************************************************************)
(* The Resolver over School tables of any size, the empty one included.    *)
(***************************************************************************)
\* School tables of 0 to NSchools rows, each school 70.7 m from the first
\* kind of site or on the Greenwich meridian
SchoolTables ==
    UNION {[1..n -> {NewSchool(c, <<None, None, None>>) :
                         c \in {<<1, 1>>, <<1, 0>>}}] : n \in 0..NSchools}

InitTables ==
    /\ sensors \in [SensorIds -> RepeatSensorRows]
    /\ schools \in SchoolTables
    /\ readings = [i \in SensorIds |-> {}]
    /\ annual_stats = [i \in SensorIds |-> {}]
    /\ now = 0
    /\ run = IdleRun
    /\ peer = IdleRun
    /\ feed = NoFeed
    /\ estimate = NoEstimate
    /\ status = NoStatus
    /\ calculated = NoAdjustment

NextTables ==
    \/ \E dry \in BOOLEAN :
          StartRun(dry, DefaultDirectThreshold, DefaultReferenceThreshold)
    \/ SkipSchool
    \/ ProcessSchool
    \/ FinishRun

SpecTables == InitTables /\ [][NextTables]_vars

(***************************************************************************)
(* Another writer of the schools while the Resolver runs: the import of    *)
(* the LAEI baselines.                                                     *)
(***************************************************************************)
\* the baselines the import file holds
ImportedBaselines ==
    {<<Some(5000), Some(1840), None>>, <<Some(3000), Some(0), Some(1840)>>}

\* import_laei, one school of the file: the school is fetched, its baseline
\* fields are set and it is saved
ImportLaei(s, b) ==
    /\ schools' = [schools EXCEPT ![s].laei_no2 = b[1],
                                  ![s].laei_pm25 = b[2],
                                  ![s].laei_pm10 = b[3]]
    /\ schools' /= schools
    /\ estimate' = NoEstimate
    /\ status' = NoStatus
    /\ calculated' = NoAdjustment
    /\ UNCHANGED <<sensors, readings, annual_stats, now, run, peer, feed>>

\* every site open and 70.7 m from the odd schools; the even schools lie on
\* the Greenwich meridian; no baseline imported and no school assigned yet
InitImport ==
    /\ sensors = EstimatorSensors
    /\ schools = [s \in SchoolIds |->
                     NewSchool(IF s % 2 = 1 THEN <<1, 1>> ELSE <<1, 0>>,
                               <<None, None, None>>)]
    /\ readings = [i \in SensorIds |-> {}]
    /\ annual_stats = [i \in SensorIds |-> {}]
    /\ now = 0
    /\ run = IdleRun
    /\ peer = IdleRun
    /\ feed = NoFeed
    /\ estimate = NoEstimate
    /\ status = NoStatus
    /\ calculated = NoAdjustment

NextImport ==
    \/ \E dry \in BOOLEAN, rth \in ReferenceThresholds :
          StartRun(dry, DefaultDirectThreshold, rth)
    \/ SkipSchool
    \/ ProcessSchool
    \/ FinishRun
    \/ \E s \in SchoolIds, b \in ImportedBaselines : ImportLaei(s, b)

SpecImport == InitImport /\ [][NextImport]_vars

(***************************************************************************)
(* The hour of the day of the reference reading: readings of a winter day  *)
(* and of a summer day, stored in UTC by the fetch commands.               *)
(***************************************************************************)
\* timestamps the feeds store: 06:30 and 18:30 UTC of day 0 (January) and of
\* day 200 (July)
DaytimeTimestamps ==
    {d * 86400 + h : d \in {0, 200}, h \in {6 * 3600 + 1800, 18 * 3600 + 1800}}

\* the first school has baselines and the LAQN site as reference sensor,
\* with or without the Breathe London site as direct sensor; the reference
\* sensor has one reading, half an hour or just over two hours old
InitDaytime ==
    /\ sensors = EstimatorSensors
    /\ \E d \in {NoSensor, 1} :
          schools = [s \in SchoolIds |->
                        IF s = 1
                        THEN AssignedSchool(
                                 <<Some(5000), Some(1840), None>>, d, 2)
                        ELSE NewSchool(<<1, 1>>, <<None, None, None>>)]
    /\ \E t \in DaytimeTimestamps, v \in ReadingValues :
          /\ readings = [i \in SensorIds |->
                             IF i = 2 THEN {ReadingRow(t, v)} ELSE {}]
          /\ now \in {t + 1800, t + MaxAgeAirQuality + 1}
    /\ \E st \in StatsSets :
          annual_stats = [i \in SensorIds |-> IF i = 2 THEN st ELSE {}]
    /\ run = IdleRun
    /\ peer = IdleRun
    /\ feed = NoFeed
    /\ estimate = NoEstimate
    /\ status = NoStatus
    /\ calculated = NoAdjustment

NextDaytime ==
    \/ \E v \in Variants, s \in SchoolIds : GetCurrentReading(v, s)
    \/ \E v \in Variants, s \in SchoolIds : GetThresholdStatus(v, s)
    \/ \E v \in Variants, s \in SchoolIds : CalculateAdjustmentFactor(v, s)

SpecDaytime == InitDaytime /\ [][NextDaytime]_vars

(***************************************************************************)
(* Readings grow old: time passes while the feeds store, or do not store,  *)
(* newer readings.                                                         *)
(***************************************************************************)
\* the feeds deliver every pollutant
AgeingFeedValues ==
    {[no2 |-> Some(32000), pm25 |-> Some(1000), pm10 |-> Some(1234)]}

\* nothing fetched yet; the first school has baselines, the Breathe London
\* site as direct sensor and the LAQN site, which has annual statistics, as
\* reference sensor; it is 12:00
InitAgeing ==
    /\ sensors = EstimatorSensors
    /\ schools = [s \in SchoolIds |->
                     IF s = 1
                     THEN AssignedSchool(<<Some(5000), Some(1840), None>>,
                                         1, 2)
                     ELSE NewSchool(<<1, 1>>, <<None, None, None>>)]
    /\ readings = [i \in SensorIds |-> {}]
    /\ annual_stats = [i \in SensorIds |->
                          IF i = 2 THEN {StoredStats} ELSE {}]
    /\ now = TDay + MaxAgeAirQuality
    /\ run = IdleRun
    /\ peer = IdleRun
    /\ feed = NoFeed
    /\ estimate = NoEstimate
    /\ status = NoStatus
    /\ calculated = NoAdjustment

NextAgeing ==
    \/ \E i \in FedSensors, t \in FeedTimestamps, v \in AgeingFeedValues :
          FetchReadings(i, t, v)
    \/ Tick
    \/ \E v \in Variants, s \in SchoolIds : GetCurrentReading(v, s)
    \/ \E v \in Variants, s \in SchoolIds : GetThresholdStatus(v, s)
    \/ \E v \in Variants, s \in SchoolIds : CalculateAdjustmentFactor(v, s)

SpecAgeing == InitAgeing /\ [][NextAgeing]_vars

(***************************************************************************)
(* Properties of the Resolver.                                             *)
(***************************************************************************)
\* a completed run that saved, over an inventory unchanged since it loaded
RunSaved ==
    /\ run.pc = "done"
    /\ ~run.dry_run
    /\ run.all_sensors \in {<<>>, <<sensors>>}

\* the school row holds a latitude and a longitude value
HasCoordinateValues(sc) == ~IsNone(sc.latitude) /\ ~IsNone(sc.longitude)

DistanceTo(sc, i) ==
    haversine_distance(Val(sc.latitude), Val(sc.longitude),
                       sensors[i].latitude, sensors[i].longitude)

\* active urban_background sensors within the direct threshold of the school
EligibleDirect(sc) ==
    {i \in SensorIds :
        /\ sensors[i].is_active
        /\ sensors[i].site_type = "urban_background"
        /\ DistanceTo(sc, i) <= run.direct_threshold * 100}

ActiveLAQN == {i \in SensorIds : sensors[i].is_active
                                 /\ sensors[i].network = "LAQN"}

DirectRule(sc) ==
    /\ (sc.direct_sensor = NoSensor) <=> (EligibleDirect(sc) = {})
    /\ sc.direct_sensor /= NoSensor =>
          /\ sc.direct_sensor \in EligibleDirect(sc)
          /\ \A j \in EligibleDirect(sc) :
                 DistanceTo(sc, sc.direct_sensor) <= DistanceTo(sc, j)

ReferenceRule(sc) ==
    /\ (sc.reference_sensor /= NoSensor) <=>
          (\E i \in ActiveLAQN :
               DistanceTo(sc, i) <= run.reference_threshold * 100)
    /\ sc.reference_sensor /= NoSensor =>
          /\ sc.reference_sensor \in ActiveLAQN
          /\ \A j \in ActiveLAQN :
                 DistanceTo(sc, sc.reference_sensor) <= DistanceTo(sc, j)

\* C1: after a Resolver run every school with coordinates has as direct
\* sensor the nearest active urban_background sensor within direct_threshold,
\* and has none exactly when no such sensor exists.
C1_DirectIsNearestEligible ==
    RunSaved =>
        \A s \in SchoolIds :
            HasCoordinateValues(schools[s]) => DirectRule(schools[s])

\* C2: after a Resolver run every school with coordinates has as reference
\* sensor the nearest active LAQN sensor, whatever its site type, exactly
\* when that sensor is within reference_threshold.
C2_ReferenceIsNearestLAQN ==
    RunSaved =>
        \A s \in SchoolIds :
            HasCoordinateValues(schools[s]) => ReferenceRule(schools[s])

\* the two selection rules on the schools the run did not pass over
SelectionRulesWhereProcessed ==
    RunSaved =>
        \A s \in run.processed :
            DirectRule(schools[s]) /\ ReferenceRule(schools[s])

\* a closer roadside sensor inside the threshold did not block the farther
\* urban_background one
FartherEligibleChosen ==
    /\ RunSaved
    /\ \E s \in run.processed, i \in SensorIds :
          /\ schools[s].direct_sensor \notin {NoSensor, i}
          /\ sensors[i].is_active
          /\ sensors[i].site_type = "roadside"
          /\ DistanceTo(schools[s], i)
                 < DistanceTo(schools[s], schools[s].direct_sensor)

ConsistentAssignment(sc) ==
    /\ (sc.data_source = "DIRECT") <=> (sc.direct_sensor /= NoSensor)
    /\ (sc.data_source = "ADJUSTED") <=>
          (sc.direct_sensor = NoSensor /\ sc.reference_sensor /= NoSensor)
    /\ (sc.data_source = "LAEI") <=>
          (sc.direct_sensor = NoSensor /\ sc.reference_sensor = NoSensor)
    /\ IsNone(sc.direct_sensor_distance) <=> (sc.direct_sensor = NoSensor)
    /\ IsNone(sc.reference_sensor_distance) <=>
          (sc.reference_sensor = NoSensor)

\* C3: every stored school, in every state during and after a Resolver run,
\* has data_source DIRECT iff a direct sensor is assigned, ADJUSTED iff only
\* a reference sensor is, LAEI iff neither is, and each distance present
\* exactly when its sensor is: no part of an assignment is stored alone.
C3_AssignmentWhole ==
    \A s \in SchoolIds : ConsistentAssignment(schools[s])

\* a run has stored all three kinds of assignment, one of them with no
\* active sensor in the inventory
C3_Witness ==
    /\ RunSaved
    /\ \E s \in run.processed :
          schools[s].data_source \in {"DIRECT", "ADJUSTED"}
    /\ \E s \in run.processed : schools[s].data_source = "LAEI"

\* the stored distances are those to the assigned sensors, to one decimal
DistanceRule(sc) ==
    /\ sc.direct_sensor /= NoSensor =>
          sc.direct_sensor_distance
              = Some(Round1(DistanceTo(sc, sc.direct_sensor)))
    /\ sc.reference_sensor /= NoSensor =>
          sc.reference_sensor_distance
              = Some(Round1(DistanceTo(sc, sc.reference_sensor)))

\* the school's coordinates are those the run loaded
SameCoordinates(a, b) ==
    a.latitude = b.latitude /\ a.longitude = b.longitude

\* C11: after a Resolver run over the current inventory, each school it
\* processed holds exactly the assignment that its coordinates, the active
\* sensors and the two thresholds determine: a sensor assigned before that
\* no longer qualifies is gone with its distance, data_source agrees, and
\* two processed schools at the same place hold the same assignment
\* whatever they held before.
C11_AssignmentRecomputed ==
    RunSaved =>
        \A s \in run.processed :
            SameCoordinates(schools[s], run.loaded[s]) =>
                /\ DirectRule(schools[s])
                /\ ReferenceRule(schools[s])
                /\ DistanceRule(schools[s])
                /\ ConsistentAssignment(schools[s])
                /\ \A t \in run.processed :
                       (/\ SameCoordinates(schools[t], run.loaded[t])
                        /\ SameCoordinates(schools[s], schools[t]))
                           => Assignment(schools[s]) = Assignment(schools[t])

\* a school that had a direct and a reference sensor before the run has
\* neither after it, and its data source fell back to the baseline
C11_Witness ==
    /\ RunSaved
    /\ \E s \in run.processed :
          /\ SameCoordinates(schools[s], run.loaded[s])
          /\ run.loaded[s].direct_sensor /= NoSensor
          /\ run.loaded[s].reference_sensor /= NoSensor
          /\ run.loaded[s].data_source = "DIRECT"
          /\ schools[s].direct_sensor = NoSensor
          /\ schools[s].reference_sensor = NoSensor
          /\ schools[s].data_source = "LAEI"

\* C13: a school the loop finds without a latitude or a longitude is passed
\* over: the run goes on to the schools after it and finishes, every school
\* that is not passed over is processed, and the five assignment fields of
\* the one passed over are those it had when the run started.
C13_SkippedKeepsAssignment ==
    run.pc \in {"loop", "done"} =>
        /\ \A s \in SchoolIds :
              s < run.idx =>
                  IF HasNoCoordinates(run.loaded[s])
                  THEN /\ s \in run.skipped
                       /\ s \notin run.processed
                       /\ Assignment(schools[s]) = Assignment(run.loaded[s])
                  ELSE s \in run.processed
        /\ run.pc = "done" => run.idx = NSchools + 1

\* a finished run passed over a school that held a direct and a reference
\* sensor and processed a school that came after it
C13_Witness ==
    /\ run.pc = "done"
    /\ ~run.dry_run
    /\ \E s \in run.skipped, t \in run.processed :
          /\ s < t
          /\ schools[s].direct_sensor /= NoSensor
          /\ schools[s].reference_sensor /= NoSensor
          /\ schools[s].data_source = "DIRECT"
          /\ schools[t].reference_sensor /= NoSensor

\* a saving run has finished after a saving run with the same thresholds
RanTwice ==
    /\ run.pc = "done" /\ ~run.dry_run
    /\ peer.pc = "done" /\ ~peer.dry_run
    /\ run.direct_threshold = peer.direct_threshold
    /\ run.reference_threshold = peer.reference_threshold

\* C12: when assign_sensors has run twice in succession with the same
\* thresholds over unchanged sensors and schools, every school's five
\* assignment fields after the second run are those it had when the second
\* run started, that is after the first run.
C12_SecondRunChangesNothing ==
    RanTwice =>
        \A s \in SchoolIds :
            Assignment(schools[s]) = Assignment(run.loaded[s])

\* the second run processed a school that holds a direct sensor and a school
\* that holds a reference sensor only
C12_Witness ==
    /\ RanTwice
    /\ \E s \in run.processed \cap peer.processed :
          schools[s].data_source = "DIRECT"
    /\ \E s \in run.processed \cap peer.processed :
          schools[s].data_source = "ADJUSTED"

\* two saving invocations with the same thresholds, each in its loop or
\* finished
TwoRuns ==
    /\ run.pc \in {"loop", "done"} /\ ~run.dry_run
    /\ peer.pc \in {"loop", "done"} /\ ~peer.dry_run
    /\ run.direct_threshold = peer.direct_threshold
    /\ run.reference_threshold = peer.reference_threshold

C18_RefusesWithoutThresholds ==
    (\/ IsNone(run.argv.direct_threshold)
     \/ IsNone(run.argv.reference_threshold))
        => run.pc \notin {"loop", "done"}

(***************************************************************************)
(* Properties of the Estimator, the Calculator and the Classifier.         *)
(***************************************************************************)
\* the school, the result and the freshness window of the returned estimate
EstSchool == schools[estimate.school]
Res == estimate.result
EstWindow == MaxAge(estimate.variant)

\* the sensor has a stored reading and its greatest timestamp is at most
\* `window` seconds before now
HasFreshReading(i, window) ==
    /\ readings[i] /= {}
    /\ \E r \in readings[i] :
          /\ \A q \in readings[i] : q.timestamp <= r.timestamp
          /\ now - r.timestamp <= window

\* C4: whenever the school's direct sensor has a fresh latest reading, the
\* estimate's method is 'direct', whatever reference data and baselines
\* exist.
C4_DirectHasPriority ==
    estimate.variant /= "none" =>
        ((/\ EstSchool.direct_sensor /= NoSensor
          /\ HasFreshReading(EstSchool.direct_sensor, EstWindow))
             => Res.method = "direct")

\* a direct estimate returned although the adjusted method was applicable
C4_Witness ==
    /\ estimate.variant /= "none"
    /\ Res.method = "direct"
    /\ EstSchool.reference_sensor /= NoSensor
    /\ has_laei_data(EstSchool)
    /\ HasFreshReading(EstSchool.reference_sensor, EstWindow)
    /\ calculate_adjustment_factor(estimate.variant, EstSchool)
           /= EmptyFactors

\* baseline x clamp(factor, 0.2, 5.0), rounded to one decimal
ClampedProduct(b, f) ==
    LET c == IF f < 200 THEN 200 ELSE IF f > 5000 THEN 5000 ELSE f
    IN RoundDiv(b * c, 10000) * 10

\* C5: in an adjusted estimate each pollutant is its baseline times its own
\* clamped factor, rounded to one decimal, when both exist, and the
\* unmodified baseline when the baseline exists and the factor does not.
C5_AdjustedPerPollutant ==
    (estimate.variant /= "none" /\ Res.method = "laei_adjusted") =>
        \A p \in Pollutants :
            LET b == Baseline(EstSchool, p)
                f == Res.adjustment_factors[p]
            IN /\ (~IsNone(b) /\ ~IsNone(f)) =>
                      Res[p] = Some(ClampedProduct(Val(b), Val(f)))
               /\ (~IsNone(b) /\ IsNone(f)) => Res[p] = b

\* the school and the window of the returned factor mapping
CalcSchool == schools[calculated.school]
CalcWindow == MaxAge(calculated.variant)

\* the Calculator got as far as the per-pollutant step
FactorsComputed ==
    /\ calculated.variant /= "none"
    /\ CalcSchool.reference_sensor /= NoSensor
    /\ HasFreshReading(CalcSchool.reference_sensor, CalcWindow)
    /\ annual_stats[CalcSchool.reference_sensor] /= {}
    /\ calculated.variant = "schools" =>
          LET h == Hour(get_latest_reading(
                            CalcSchool.reference_sensor)[1].timestamp)
          IN h >= 7 /\ h < 19

\* C6: a pollutant has a factor exactly when the latest reading's value and
\* the annual mean are both present and the mean is strictly positive, a
\* reading value of 0 included, and the factor is value / mean rounded to
\* three decimals.
C6_FactorWhenBothPresent ==
    FactorsComputed =>
        \A p \in Pollutants :
            LET v == get_latest_reading(CalcSchool.reference_sensor)[1][p]
                m == Mean(latest_annual_stats(
                              CalcSchool.reference_sensor)[1], p)
                present == ~IsNone(v) /\ ~IsNone(m) /\ Val(m) > 0
            IN /\ present <=> ~IsNone(calculated.factors[p])
               /\ present =>
                     calculated.factors[p]
                         = Some(RoundDiv(Val(v) * 1000, Val(m)))

\* no reference sensor, no reading of it, a stale latest reading, or no
\* annual statistics
NoFactorBasis(sc, window) ==
    \/ sc.reference_sensor = NoSensor
    \/ ~HasFreshReading(sc.reference_sensor, window)
    \/ annual_stats[sc.reference_sensor] = {}

\* C7: the Calculator returns the empty mapping when there is no reference
\* sensor, no reading, a stale reading or no annual statistics, and an
\* estimate is never 'laei_adjusted' when the mapping is empty.
C7_EmptyMappingNotAdjusted ==
    /\ (calculated.variant /= "none" /\ NoFactorBasis(CalcSchool, CalcWindow))
           => calculated.factors = EmptyFactors
    /\ (/\ estimate.variant /= "none"
        /\ \/ NoFactorBasis(EstSchool, EstWindow)
           \/ calculate_adjustment_factor(estimate.variant, EstSchool)
                  = EmptyFactors)
           => Res.method /= "laei_adjusted"

\* a school with a reference sensor, a fresh reading of it and baselines
\* falls to the baseline-only tier because there are no annual statistics
C7_Witness ==
    /\ estimate.variant /= "none"
    /\ EstSchool.reference_sensor /= NoSensor
    /\ has_laei_data(EstSchool)
    /\ HasFreshReading(EstSchool.reference_sensor, EstWindow)
    /\ annual_stats[EstSchool.reference_sensor] = {}
    /\ Res.method = "laei_only"

\* C8: a direct estimate carries the fresh latest reading's no2, pm25 and
\* pm10 unchanged, null where the reading has none, with confidence 'high'
\* for a LAQN sensor and 'medium-high' otherwise.
C8_DirectVerbatim ==
    (estimate.variant /= "none" /\ Res.method = "direct") =>
        LET r == get_latest_reading(EstSchool.direct_sensor)[1]
        IN /\ \A p \in Pollutants : Res[p] = r[p]
           /\ Res.confidence =
                  IF sensors[EstSchool.direct_sensor].network = "LAQN"
                  THEN "high" ELSE "medium-high"

\* C9: when neither the direct nor the adjusted method applies, a school
\* with any baseline value gets the baselines unchanged with method
\* 'laei_only' and confidence 'low'; a school with none gets all nulls,
\* method None and confidence 'low'.
C9_BaselineOnly ==
    (estimate.variant /= "none"
     /\ Res.method \notin {"direct", "laei_adjusted"}) =>
        IF \E p \in Pollutants : ~IsNone(Baseline(EstSchool, p))
        THEN /\ \A p \in Pollutants : Res[p] = Baseline(EstSchool, p)
             /\ Res.method = "laei_only"
             /\ Res.confidence = "low"
        ELSE /\ \A p \in Pollutants : IsNone(Res[p])
             /\ Res.method = "None"
             /\ Res.confidence = "low"

\* the limits the status was computed against
StatusLimits(p) ==
    IF status.variant = "air_quality" THEN ThresholdsAirQuality[p]
    ELSE ThresholdsSchools[p]

\* the category an entry reports: the 'category' key in air_quality.models,
\* the combination of the three flags in schools.models, which returns no
\* 'category' key
ReportedCategories(e) ==
    IF status.variant = "air_quality"
    THEN {e.category}
    ELSE {c \in {"meets_who", "meets_eu_2030", "meets_uk_only", "exceeds_uk"} :
            /\ e.meets_who <=> (c = "meets_who")
            /\ e.meets_eu_2024 <=> (c \in {"meets_who", "meets_eu_2030"})
            /\ e.meets_uk <=> (c /= "exceeds_uk")}

C14_InactiveNeverUsed ==
    /\ (run.pc \in {"loop", "done"} /\ ~run.dry_run
        /\ run.all_sensors = <<sensors>>) =>
           \A s \in run.processed :
               /\ schools[s].direct_sensor /= NoSensor =>
                      sensors[schools[s].direct_sensor].is_active
               /\ schools[s].reference_sensor /= NoSensor =>
                      sensors[schools[s].reference_sensor].is_active
    /\ estimate.variant /= "none" =>
           /\ Res.method = "direct" =>
                  sensors[EstSchool.direct_sensor].is_active
           /\ Res.method = "laei_adjusted" =>
                  sensors[EstSchool.reference_sensor].is_active
    /\ (calculated.variant /= "none" /\ calculated.factors /= EmptyFactors)
           => sensors[CalcSchool.reference_sensor].is_active
\* C16: a step in which get_current_reading or get_threshold_status returns
\* changes no School, Sensor, Reading or annual-statistics record, and what
\* it returns is the estimate computed from the records as they are at that
\* moment.
C16_CallsAreReadOnly ==
    [][((estimate' /= estimate /\ estimate'.variant /= "none")
        \/ (status' /= status /\ status'.variant /= "none")) =>
           /\ UNCHANGED <<schools, sensors, readings, annual_stats>>
           /\ estimate'.result
                  = get_current_reading(estimate'.variant,
                                        schools[estimate'.school])]_vars

\* an estimate and a status were returned for a school that the Resolver
\* stored as DIRECT and whose estimate fell to another tier: the stored row
\* did not follow the estimate
C16_Witness ==
    /\ run.pc = "done"
    /\ estimate.variant /= "none"
    /\ status.variant /= "none"
    /\ EstSchool.data_source = "DIRECT"
    /\ Res.method = "laei_adjusted"
\* the stored reading of a site for its greatest timestamp
NewestReading(i) ==
    CHOOSE r \in readings[i] : \A q \in readings[i] : q.timestamp <= r.timestamp

\* the stored annual statistics of a site for its greatest year
NewestStats(i) ==
    CHOOSE r \in annual_stats[i] : \A q \in annual_stats[i] : q.year <= r.year

\* every factor present is the ratio of the newest reading of the reference
\* sensor, fresh within the window, to the mean of its newest year
FactorsOfNewest(sc, factors, window) ==
    \A p \in Pollutants :
        ~IsNone(factors[p]) =>
            /\ sc.reference_sensor /= NoSensor
            /\ readings[sc.reference_sensor] /= {}
            /\ annual_stats[sc.reference_sensor] /= {}
            /\ now - NewestReading(sc.reference_sensor).timestamp <= window
            /\ ~IsNone(NewestReading(sc.reference_sensor)[p])
            /\ ~IsNone(Mean(NewestStats(sc.reference_sensor), p))
            /\ factors[p] =
                   Some(RoundDiv(
                       Val(NewestReading(sc.reference_sensor)[p]) * 1000,
                       Val(Mean(NewestStats(sc.reference_sensor), p))))

\* C15: the Estimator and the Calculator use only the reading with the
\* greatest timestamp and the annual statistics with the greatest year,
\* whatever the order they were stored in: a direct estimate reports, per
\* pollutant, the value of the newest reading of the direct sensor or
\* nothing, and a factor is the ratio of the newest reading to the newest
\* year's mean, absent where either lacks the pollutant
C15_LatestRecordsOnly ==
    /\ (estimate /= NoEstimate /\ Res.method = "direct") =>
           /\ readings[EstSchool.direct_sensor] /= {}
           /\ now - NewestReading(EstSchool.direct_sensor).timestamp
                  <= EstWindow
           /\ \A p \in Pollutants :
                  \/ IsNone(Res[p])
                  \/ Res[p] = NewestReading(EstSchool.direct_sensor)[p]
    /\ (estimate /= NoEstimate /\ Res.method = "laei_adjusted") =>
           FactorsOfNewest(EstSchool, Res.adjustment_factors, EstWindow)
    /\ calculated /= NoAdjustment =>
           FactorsOfNewest(CalcSchool, calculated.factors, CalcWindow)

\* an adjusted estimate whose reference sensor has an older reading and an
\* older year that both report PM2.5 while the newest of each do not: no
\* PM2.5 factor is made
C15_Witness ==
    /\ estimate /= NoEstimate
    /\ Res.method = "laei_adjusted"
    /\ Cardinality(readings[EstSchool.reference_sensor]) = 2
    /\ Cardinality(annual_stats[EstSchool.reference_sensor]) = 2
    /\ IsNone(NewestReading(EstSchool.reference_sensor).pm25)
    /\ IsNone(NewestStats(EstSchool.reference_sensor).pm25_mean)
    /\ \E r \in readings[EstSchool.reference_sensor] : ~IsNone(r.pm25)
    /\ \E r \in annual_stats[EstSchool.reference_sensor] :
          ~IsNone(r.pm25_mean)
    /\ IsNone(Res.adjustment_factors["pm25"])
    /\ ~IsNone(Res.adjustment_factors["no2"])

\* C17: a negative concentration delivered by a feed is treated as absent:
\* no direct estimate reports a negative value, and no adjustment factor
\* is made for a pollutant whose newest reference reading is negative
C17_NegativeIsAbsent ==
    /\ (estimate /= NoEstimate /\ Res.method = "direct") =>
           \A p \in Pollutants : ~IsNone(Res[p]) => Val(Res[p]) >= 0
    /\ (estimate /= NoEstimate /\ Res.method = "laei_adjusted") =>
           \A p \in Pollutants :
               ~IsNone(Res.adjustment_factors[p]) =>
                   Val(NewestReading(EstSchool.reference_sensor)[p]) >= 0
    /\ calculated /= NoAdjustment =>
           \A p \in Pollutants :
               ~IsNone(calculated.factors[p]) =>
                   Val(NewestReading(CalcSchool.reference_sensor)[p]) >= 0

\* at most one reading per sensor and timestamp
UniqueReadings ==
    \A i \in SensorIds : \A r, q \in readings[i] :
        r.timestamp = q.timestamp => r = q

\* the hour a fetch stored last is stored with the values it fetched
LastFetchedStored ==
    feed.pc = "saved" =>
        ReadingRow(feed.timestamp, feed.values) \in readings[feed.sensor]

PlaceInOrder(i) == CHOOSE k \in 1..Len(run.order) : run.order[k] = i

\* the eligible sensors exactly as far from the school as its direct sensor
TiedWithDirect(sc) ==
    {j \in EligibleDirect(sc) :
        DistanceTo(sc, j) = DistanceTo(sc, sc.direct_sensor)}

\* C21: when several eligible sensors are at exactly the same minimum
\* distance from a school, the direct sensor assigned is the one that comes
\* first in the order of the sensor inventory
C21_TieGoesToFirstInOrder ==
    RunSaved =>
        \A s \in run.processed :
            schools[s].direct_sensor /= NoSensor =>
                \A j \in TiedWithDirect(schools[s]) :
                    PlaceInOrder(schools[s].direct_sensor) <= PlaceInOrder(j)

\* a school was given one of two eligible sensors at the same distance
C21_Witness ==
    /\ RunSaved
    /\ \E s \in run.processed :
          /\ schools[s].direct_sensor /= NoSensor
          /\ Cardinality(TiedWithDirect(schools[s])) >= 2

\* C26: with direct_threshold <= reference_threshold, every school whose
\* direct sensor is a LAQN sensor also has a reference sensor, at a distance
\* not greater than that of the direct sensor; a school with a direct sensor
\* and no reference sensor has a Breathe London direct sensor
C26_LAQNDirectHasReference ==
    run.direct_threshold <= run.reference_threshold =>
        \A s \in SchoolIds :
            (/\ schools[s].direct_sensor /= NoSensor
             /\ sensors[schools[s].direct_sensor].network = "LAQN") =>
                /\ schools[s].reference_sensor /= NoSensor
                /\ Val(schools[s].reference_sensor_distance)
                       <= Val(schools[s].direct_sensor_distance)

\* a run has given a school a LAQN direct sensor and a nearer LAQN roadside
\* site as reference sensor
C26_Witness ==
    /\ RunSaved
    /\ \E s \in run.processed :
          /\ schools[s].direct_sensor /= NoSensor
          /\ sensors[schools[s].direct_sensor].network = "LAQN"
          /\ schools[s].reference_sensor /= schools[s].direct_sensor
          /\ Val(schools[s].reference_sensor_distance)
                 < Val(schools[s].direct_sensor_distance)

\* C29: a Resolver run completes normally for every set of schools and
\* sensors, the empty set of schools and a set of schools without
\* coordinates included: it never raises, and when it has finished every
\* school it loaded has been processed or passed over
C29_RunCompletes ==
    /\ run.pc /= "error"
    /\ run.pc = "done" =>
           run.processed \cup run.skipped = 1..Len(run.loaded)

\* C30: every school with a latitude and a longitude value, a value of
\* exactly 0 included, is processed by a Resolver run; only schools that
\* lack a coordinate value are passed over
C30_ZeroCoordinateProcessed ==
    run.pc \in {"loop", "done"} =>
        /\ \A s \in run.skipped : ~HasCoordinateValues(run.loaded[s])
        /\ \A s \in run.processed : HasCoordinateValues(run.loaded[s])

\* the five counters of the summary
Counters(r) ==
    <<r.direct, r.adjusted, r.laei_only, r.direct_laqn, r.direct_breathe>>

\* a finished dry run and a finished saving run with the same thresholds,
\* one right after the other
DryAndSaving ==
    /\ run.pc = "done" /\ peer.pc = "done"
    /\ run.dry_run /= peer.dry_run
    /\ run.direct_threshold = peer.direct_threshold
    /\ run.reference_threshold = peer.reference_threshold

\* C24: with --dry-run a Resolver run changes no stored field of any
\* school, and it processes the same schools and counts the same
\* assignments as a saving run with the same thresholds on the same data
C24_DryRunChangesNothing ==
    /\ (run.pc \in {"loop", "done"} /\ run.dry_run) => schools = run.loaded
    /\ DryAndSaving =>
           /\ Counters(run) = Counters(peer)
           /\ run.processed = peer.processed
           /\ run.skipped = peer.skipped

\* a dry run after a saving run has counted a direct and an adjusted
\* assignment
C24_Witness ==
    /\ DryAndSaving
    /\ run.dry_run
    /\ run.direct >= 1
    /\ run.adjusted >= 1

\* the fields of a school the Resolver does not compute
KeptFields(sc) ==
    <<sc.latitude, sc.longitude, sc.laei_no2, sc.laei_pm25, sc.laei_pm10>>

\* C25: a step of a Resolver run changes no sensor, reading or annual
\* statistics, changes no school but the one it processes, and leaves the
\* coordinates and the baselines of every school as they are stored at that
\* moment, also when another writer has changed them since the run loaded
\* the school
C25_WritesAssignmentOnly ==
    [][run' /= run =>
          /\ sensors' = sensors
          /\ readings' = readings
          /\ annual_stats' = annual_stats
          /\ \A s \in SchoolIds :
                 /\ schools'[s] /= schools[s] =>
                        (run.pc = "loop" /\ s = run.idx)
                 /\ KeptFields(schools'[s]) = KeptFields(schools[s])]_vars

(***************************************************************************)
(* Further properties of the Estimator and the Calculator.                 *)
(***************************************************************************)
\* the newest reading of a sensor is at most window seconds old
NewestWithin(i, window) ==
    /\ i /= NoSensor
    /\ readings[i] /= {}
    /\ now - NewestReading(i).timestamp <= window

\* C22: in both School implementations a reading is fresh exactly when its
\* age is at most 7200 s, for the direct sensor's reading and for the
\* reference sensor's reading alike: a school with a direct sensor gets the
\* direct method exactly when that sensor's newest reading is at most
\* 7200 s old, and factors are made only from a reference reading at most
\* 7200 s old
C22_TwoHourWindow ==
    /\ (estimate /= NoEstimate /\ EstSchool.direct_sensor /= NoSensor) =>
           ((Res.method = "direct")
                <=> NewestWithin(EstSchool.direct_sensor, 7200))
    /\ (estimate /= NoEstimate /\ Res.method = "laei_adjusted") =>
           NewestWithin(EstSchool.reference_sensor, 7200)
    /\ (calculated /= NoAdjustment /\ calculated.factors /= EmptyFactors) =>
           NewestWithin(CalcSchool.reference_sensor, 7200)


\* London keeps UTC in winter and is one hour ahead of it in summer: the
\* days 90 to 299 of the model's year
InSummerTime(t) == (t \div 86400) \in 90..299

\* the hour of the day in London of an instant given in UTC
LondonHour(t) ==
    ((t + (IF InSummerTime(t) THEN 3600 ELSE 0)) \div 3600) % 24

\* C23: in the variant with daytime filtering the factor mapping is empty
\* whenever the London hour of the latest reference reading is outside
\* 07:00-19:00, and a fresh reading whose London hour is inside it is never
\* rejected by the filter: its factors are the per-pollutant ratios
C23_DaytimeIsLocal ==
    (/\ calculated /= NoAdjustment
     /\ calculated.variant = "schools"
     /\ CalcSchool.reference_sensor /= NoSensor
     /\ readings[CalcSchool.reference_sensor] /= {}) =>
        /\ (\/ LondonHour(
                   NewestReading(CalcSchool.reference_sensor).timestamp) < 7
            \/ LondonHour(
                   NewestReading(CalcSchool.reference_sensor).timestamp)
                   >= 19) =>
               calculated.factors = EmptyFactors
        /\ (/\ LondonHour(
                   NewestReading(CalcSchool.reference_sensor).timestamp) >= 7
            /\ LondonHour(
                   NewestReading(CalcSchool.reference_sensor).timestamp) < 19
            /\ NewestWithin(CalcSchool.reference_sensor, MaxAgeSchools)
            /\ annual_stats[CalcSchool.reference_sensor] /= {}) =>
               calculated.factors =
                   Factors(NewestReading(CalcSchool.reference_sensor),
                           NewestStats(CalcSchool.reference_sensor))


\* the sensor has readings and the newest is older than the window
NewestStale(i, window) ==
    /\ i /= NoSensor
    /\ readings[i] /= {}
    /\ now - NewestReading(i).timestamp > window

\* the step stores no reading of the sensor newer than its newest one
NoNewerReading(i) ==
    \A q \in readings'[i] : q.timestamp <= NewestReading(i).timestamp

\* C27: staleness is monotone in time.  Once the newest reading of a sensor
\* is older than the window it stays so in every step that stores no newer
\* reading of that sensor; and a call made while the direct sensor's newest
\* reading is stale returns a method other than 'direct', a call made while
\* the reference sensor's is stale a method other than 'laei_adjusted'
C27_StalenessPersists ==
    [][/\ \A i \in SensorIds, v \in Variants :
              (NewestStale(i, MaxAge(v)) /\ NoNewerReading(i)) =>
                  NewestStale(i, MaxAge(v))'
       /\ (estimate' /= NoEstimate /\ estimate' /= estimate) =>
              /\ NewestStale(EstSchool.direct_sensor, EstWindow)'
                     => Res.method' /= "direct"
              /\ NewestStale(EstSchool.reference_sensor, EstWindow)'
                     => Res.method' /= "laei_adjusted"]_vars

\* a day later, no newer reading stored: the direct sensor's reading of
\* 10:00 is stale in both implementations and the estimate is not direct
C27_Witness ==
    /\ estimate /= NoEstimate
    /\ now = TDay + MaxAgeSchools + 1
    /\ NewestStale(EstSchool.direct_sensor, EstWindow)
    /\ NewestReading(EstSchool.direct_sensor).timestamp = TDay
    /\ Res.method = "laei_only"


\* C28: get_current_reading returns for every school, whatever sensors,
\* readings, annual statistics and baselines are absent or stale, and what
\* it returns has a method among 'direct', 'laei_adjusted', 'laei_only' and
\* None, with confidence 'high' or 'medium-high' exactly for 'direct',
\* 'medium' exactly for 'laei_adjusted', 'low' exactly for the other two
C28_TotalWithConfidence ==
    /\ NoCallOutstanding =>
           \A v \in Variants, s \in SchoolIds : ENABLED GetCurrentReading(v, s)
    /\ estimate.variant /= "none" =>
           /\ Res.method \in {"direct", "laei_adjusted", "laei_only", "None"}
           /\ Res.confidence \in {"high", "medium-high", "medium", "low"}
           /\ (Res.confidence \in {"high", "medium-high"})
                  <=> (Res.method = "direct")
           /\ (Res.confidence = "medium") <=> (Res.method = "laei_adjusted")
           /\ (Res.confidence = "low")
                  <=> (Res.method \in {"laei_only", "None"})

\* a school with a direct and a reference sensor that have no reading, and
\* without baselines: the estimate has no method and low confidence
C28_Witness ==
    /\ estimate.variant /= "none"
    /\ EstSchool.direct_sensor /= NoSensor
    /\ EstSchool.reference_sensor /= NoSensor
    /\ readings[EstSchool.direct_sensor] = {}
    /\ readings[EstSchool.reference_sensor] = {}
    /\ ~has_laei_data(EstSchool)
    /\ Res.method = "None"
    /\ Res.confidence = "low"

====
